---- MODULE Spec2Model ----
(***************************************************************************)
(* A model of proj2_nps.py: three JSON cache files, the three fetchers     *)
(* that read and fill them, and the interactive session of __main__.       *)
(*                                                                         *)
(* Text that reaches the program from outside (what the user types, the    *)
(* text of a page element) is a sequence of one-character strings, so that *)
(* lower, strip, slicing and int are computed character by character; the  *)
(* str the program then holds is a string, joined with \o as format and +  *)
(* join it.  Python values that come from or go to JSON are tagged         *)
(* records: str, num, float, nan, inf, bool, null, list, dict.  A dict is  *)
(* the sequence of its <<key, value>> items in insertion order, keys       *)
(* unique.  The text of a JSON file is the sequence of its tokens.         *)
(***************************************************************************)
EXTENDS Integers, Sequences, FiniteSets, TLC

VARIABLES
    pc,                \* position of the process: boot, SelectState, SelectSite, Terminal, Crashed
    STATE_CACHE_DICT,  \* module-level state map
    PARK_CACHE_DICT,   \* module-level site-list map
    NEAR_CACHE_DICT,   \* module-level nearby-places map
    files,             \* the three cache files on disk
    state_url_dict,    \* __main__: the map build_state_url_dict returned
    park_ls,           \* __main__: the list of NationalSite of the selected state
    gets,              \* number of HTTP GETs issued by this process so far
    dirty,             \* the cache files whose map this process has mutated
    fetched,           \* what this process fetched from the network, in order
    last               \* the last step of the process: what came in, what came out

vars == <<pc, STATE_CACHE_DICT, PARK_CACHE_DICT, NEAR_CACHE_DICT, files,
          state_url_dict, park_ls, gets, dirty, fetched, last>>

-----------------------------------------------------------------------------
(* Python values *)

PStr(s)  == [t |-> "str", s |-> s]
PNum(n)  == [t |-> "num", n |-> n]
PNull    == [t |-> "null"]
PBool(b) == [t |-> "bool", b |-> b]
PList(l) == [t |-> "list", l |-> l]
PDict(d) == [t |-> "dict", d |-> d]

RECURSIVE Normal(_, _)
\* the decimal m * 10^e written without trailing zeros in m
Normal(m, e) ==
    IF m = 0 THEN <<0, 0>>
    ELSE IF m % 10 = 0 THEN Normal(m \div 10, e + 1) ELSE <<m, e>>

RECURSIVE Pow10(_)
Pow10(n) == IF n = 0 THEN 1 ELSE 10 * Pow10(n - 1)

\* the decimal digits of a natural number, the first digit first
RECURSIVE NatDigits(_)
NatDigits(n) == IF n < 10 THEN <<n>> ELSE NatDigits(n \div 10) \o <<n % 10>>

RECURSIVE DigitsNat(_)
DigitsNat(ds) ==
    IF Len(ds) = 0 THEN 0
    ELSE 10 * DigitsNat(SubSeq(ds, 1, Len(ds) - 1)) + ds[Len(ds)]

\* digits without the zeros before the first other digit
Significant(ds) ==
    IF \A i \in 1..Len(ds) : ds[i] = 0 THEN <<>>
    ELSE SubSeq(ds, CHOOSE i \in 1..Len(ds) : ds[i] # 0 /\ \A j \in 1..(i - 1) : ds[j] = 0,
                Len(ds))

\* ds / 10^drop to the nearest whole number; the quotients taken below never
\* end in exactly one half
Rounded(ds, drop) ==
    LET n == Len(ds) - drop
    IN  (IF n > 0 THEN DigitsNat(SubSeq(ds, 1, n)) ELSE 0)
        + (IF n >= 0 /\ n < Len(ds) /\ ds[n + 1] >= 5 THEN 1 ELSE 0)

\* Whole numbers too long for an integer are held in limbs of four decimal
\* digits, the first limb first.
Limb == Pow10(4)

\* the limbs of the number of digits ds
Limbs(ds) ==
    LET n    == (Len(ds) + 3) \div 4
        pad  == 4 * n - Len(ds)
        D(i) == IF i <= pad THEN 0 ELSE ds[i - pad]
    IN  [i \in 1..n |-> 1000 * D(4 * i - 3) + 100 * D(4 * i - 2) + 10 * D(4 * i - 1) + D(4 * i)]

\* the digits of the number of limbs ls, four to a limb
LimbDigits(ls) ==
    [i \in 1..(4 * Len(ls)) |-> (ls[(i + 3) \div 4] \div Pow10(3 - ((i - 1) % 4))) % 10]

\* the limb of weight Limb^i, 0 beyond the first limb
LimbAt(ls, i) == IF i < Len(ls) THEN ls[Len(ls) - i] ELSE 0

RECURSIVE Column(_, _, _, _)
\* the sum of the products of weight Limb^i in a * b, from b's limb j down
Column(a, b, i, j) ==
    IF j < 0 THEN 0
    ELSE LimbAt(a, i - j) * LimbAt(b, j) + Column(a, b, i, j - 1)

\* the element of a set of one
The(S) == CHOOSE x \in S : TRUE

RECURSIVE CarryOver(_, _, _, _, _)
\* the carry of a * b into the limb of weight Limb^hi, c being the carry into
\* the limb of weight Limb^lo: by halves, the lower half first
CarryOver(a, b, lo, hi, c) ==
    IF hi <= lo THEN c
    ELSE IF hi = lo + 1
    THEN (Column(a, b, lo, IF lo < Len(b) THEN lo ELSE Len(b) - 1) + c) \div Limb
    ELSE The({CarryOver(a, b, (lo + hi) \div 2, hi, h) :
                 h \in {CarryOver(a, b, lo, (lo + hi) \div 2, c)}})

RECURSIVE TimesFrom(_, _, _, _)
\* the limbs of a * b of weight Limb^i and above, c being the carry into the
\* first of them
TimesFrom(a, b, i, c) ==
    IF i >= Len(a) + Len(b) THEN <<>>
    ELSE LET s == Column(a, b, i, IF i < Len(b) THEN i ELSE Len(b) - 1) + c
         IN  TimesFrom(a, b, i + 1, s \div Limb) \o <<s % Limb>>

\* the limbs of a * b of weight Limb^i and above
TimesTop(a, b, i) == TimesFrom(a, b, i, CarryOver(a, b, 0, i, 0))

\* 2^1074: the smallest positive double is 2^-1074, and the doubles below
\* 2^-1022 are the multiples of it
Pow2_1074 ==
    <<2024, 225, 3307, 3106, 1835, 2495, 3467, 1891, 7307, 495, 5664, 9764, 1421, 1835,
      6901, 3580, 2743, 339, 5679, 9534, 6891, 9603, 8370, 1437, 1244, 9518, 7077, 8643,
      1681, 1911, 3898, 873, 7385, 7934, 7686, 7013, 3999, 4073, 8509, 9215, 1742, 4276,
      5663, 6136, 4466, 9077, 4209, 3216, 3412, 3976, 7678, 4727, 4506, 8562, 74, 8342,
      4692, 6986, 1810, 3355, 6491, 5955, 6340, 8100, 5651, 2358, 7695, 5233, 3414, 6152,
      3050, 2532, 1863, 2750, 8646, 62, 6330, 7707, 7410, 9349, 4784>>

\* 5^1074: 2^-1074 is 5^1074 / 10^1074
Pow5_1074 ==
    <<494, 656, 4584, 1246, 5441, 7656, 8792, 8682, 2137, 2365, 598, 261, 4324, 7644,
      2558, 5682, 5006, 7550, 7270, 2087, 5186, 5299, 8363, 6163, 5992, 3797, 9656, 4695,
      4457, 1773, 926, 6567, 1035, 5939, 7963, 9877, 4796, 107, 8187, 8126, 3007, 1319,
      311, 4045, 2784, 5817, 1678, 4898, 2103, 6887, 1863, 6056, 9987, 3072, 3050, 63,
      8740, 9153, 5649, 8438, 7312, 4733, 9727, 3169, 6151, 4003, 1715, 3853, 9807, 4126,
      2385, 6559, 1171, 266, 5855, 6686, 7681, 8703, 9560, 3106, 2493, 1945, 2715, 9149,
      2455, 3293, 545, 6544, 4011, 2748, 129, 7099, 9954, 1931, 9894, 908, 416, 5633,
      2452, 4757, 1478, 6901, 4726, 7801, 5935, 5238, 6115, 5013, 4803, 5264, 9347, 2019,
      3790, 2681, 710, 7491, 7033, 3222, 6844, 7533, 3572, 832, 4319, 3609, 2382, 8934,
      5836, 8060, 1060, 1150, 6169, 8097, 5307, 8342, 2773, 1832, 9247, 9049, 8252, 4730,
      7763, 7592, 7247, 8746, 5608, 4778, 2037, 3446, 9699, 5336, 4701, 7972, 6777, 1758,
      5125, 6605, 5119, 9131, 5048, 9110, 1451, 378, 6273, 8167, 2509, 5583, 7389, 7335,
      9899, 3664, 8099, 4116, 4205, 7026, 3709, 279, 2427, 6754, 4565, 2290, 8753, 8682,
      5064, 1971, 8265, 5334, 4726, 5625>>

\* the largest finite double is 1.7976931348623157e308, and a decimal of ten
\* digits rounds to a finite double when it is at most 1.797693134e308
MaxDouble10 == 1797693134

\* m * 10^e is beyond the doubles: float() of the numeral is inf
Overflows(m, e) ==
    LET d == Len(NatDigits(m))
    IN  \/ e + d - 1 > 308
        \/ e + d - 1 = 308 /\ m > MaxDouble10 \div Pow10(10 - d)

\* the k of the double k * 2^-1074 nearest to m * 10^e, for a decimal below
\* 2^-1022: m * 2^1074 / 10^-e to the nearest whole number, taken from the
\* digits of m * 10^s * 2^1074, s making the place of the last digit kept the
\* end of a limb
Quantum(m, e) ==
    LET s  == (4 - ((0 - e) % 4)) % 4
        b  == Limbs(NatDigits(m) \o [i \in 1..s |-> 0])
        ls == TimesTop(Pow2_1074, b, ((0 - e) + s) \div 4 - 1)
    IN  IF e + Len(NatDigits(m)) <= 0 - 324 THEN 0
        ELSE Rounded(LimbDigits(ls), 4)

RECURSIVE ShortestFrom(_, _, _, _)
\* the decimal of the fewest digits, d or more, that is nearest to
\* xs * 10^low and rounds to the double k * 2^-1074
ShortestFrom(k, xs, low, d) ==
    LET c == <<Rounded(xs, Len(xs) - d), low + Len(xs) - d>>
    IN  IF Quantum(c[1], c[2]) = k THEN Normal(c[1], c[2])
        ELSE ShortestFrom(k, xs, low, d + 1)

\* the decimal repr prints for the double k * 2^-1074 of k > 0 below 2^-1022:
\* the shortest one that float() reads back as that double, found from the
\* digits of the six leading limbs of k * 5^1074 / 10^1074
Shortest(k) ==
    LET b    == Limbs(NatDigits(k))
        from == Len(Pow5_1074) + Len(b) - 6
    IN  ShortestFrom(k, Significant(LimbDigits(TimesTop(Pow5_1074, b, from))),
                     4 * from - 1074, 1)

\* float() of the numeral m * 10^e, as <<m, e>> of the decimal repr prints
\* for it; <<0, 0>> is 0.0.  A decimal of at most 15 digits whose last digit
\* has weight 10^-323 or more is the repr of its own double (an integer m
\* has at most 10 digits); below that weight the doubles lie further apart
\* than the decimals.
Nearest(m, e) ==
    LET n == Normal(m, e)
    IN  IF n[1] = 0 \/ n[2] >= 0 - 323 THEN n
        ELSE The({IF k = 0 THEN <<0, 0>> ELSE Shortest(k) : k \in {Quantum(n[1], n[2])}})

\* float("nan"), float("inf") and float("-inf")
PNaN      == [t |-> "nan"]
PInf(neg) == [t |-> "inf", neg |-> neg]

\* the float that float() makes of the numeral m * 10^e, negated when neg:
\* the nearest double, held as the decimal repr prints for it, and inf when
\* the numeral is beyond the doubles
PFloat(neg, m, e) ==
    IF Overflows(Normal(m, e)[1], Normal(m, e)[2]) THEN PInf(neg)
    ELSE The({[t |-> "float", neg |-> neg, m |-> n[1], e |-> n[2]] : n \in {Nearest(m, e)}})

EmptyDict == PDict(<<>>)

IsDict(v) == v.t = "dict"

\* bool(v): the truth value Python gives a value in "if not STATE_CACHE_DICT"
Truthy(v) ==
    CASE v.t = "dict" -> Len(v.d) > 0
      [] v.t = "list" -> Len(v.l) > 0
      [] v.t = "str"  -> Len(v.s) > 0
      [] v.t = "num"  -> v.n # 0
      [] v.t = "float" -> v.m # 0
      [] v.t = "bool" -> v.b
      [] v.t \in {"nan", "inf"} -> TRUE
      [] OTHER        -> FALSE

\* the keys of a dict, in insertion order
Keys(d) == [i \in 1..Len(d.d) |-> d.d[i][1]]

KeySet(d) == {d.d[i][1] : i \in 1..Len(d.d)}

\* key in d.keys()
HasKey(d, k) == k \in KeySet(d)

\* d[k], for a key of d
Get(d, k) == d.d[CHOOSE i \in 1..Len(d.d) : d.d[i][1] = k][2]

\* d[k] = v: a present key keeps its place and takes the new value, a new
\* key goes to the end
Put(d, k, v) ==
    IF HasKey(d, k)
    THEN PDict([i \in 1..Len(d.d) |-> IF d.d[i][1] = k THEN <<k, v>> ELSE d.d[i]])
    ELSE PDict(Append(d.d, <<k, v>>))

-----------------------------------------------------------------------------
(* JSON text: tokens *)

LBrace   == [p |-> "{"]
RBrace   == [p |-> "}"]
LBracket == [p |-> "["]
RBracket == [p |-> "]"]
Comma    == [p |-> ","]
Colon    == [p |-> ":"]
TNull    == [p |-> "null"]
TTrue    == [p |-> "true"]
TFalse   == [p |-> "false"]
TNaN     == [p |-> "NaN"]
TInf     == [p |-> "Infinity"]
TNegInf  == [p |-> "-Infinity"]
TStr(s)  == [s |-> s]
\* an integer numeral
TNum(n)  == [n |-> n]
\* a numeral with a fraction or an exponent: the digits m, an integer of at
\* most ten digits, scaled by 10^e
TFloat(neg, m, e) == [neg |-> neg, m |-> m, e |-> e]

IsTStr(tok) == DOMAIN tok = {"s"}
IsTNum(tok) == DOMAIN tok = {"n"}
IsTFloat(tok) == DOMAIN tok = {"neg", "m", "e"}

RECURSIVE dumps(_)
RECURSIVE DumpItems(_, _)
RECURSIVE DumpItems_nocomma(_, _)
RECURSIVE DumpElems(_, _)

\* DumpItems without the separators
DumpItems_nocomma(d, i) ==
    IF i > Len(d) THEN <<>>
    ELSE <<TStr(d[i][1]), Colon>> \o dumps(d[i][2]) \o DumpItems_nocomma(d, i + 1)

\* the items of a dict from the i-th on, separated by commas
DumpItems(d, i) ==
    IF i > Len(d) THEN <<>>
    ELSE (IF i > 1 THEN <<Comma>> ELSE <<>>)
         \o <<TStr(d[i][1]), Colon>> \o dumps(d[i][2]) \o DumpItems(d, i + 1)

\* the elements of a list from the i-th on, separated by commas
DumpElems(l, i) ==
    IF i > Len(l) THEN <<>>
    ELSE (IF i > 1 THEN <<Comma>> ELSE <<>>) \o dumps(l[i]) \o DumpElems(l, i + 1)

\* json.dumps(v)
dumps(v) ==
    CASE v.t = "str"  -> <<TStr(v.s)>>
      [] v.t = "num"  -> <<TNum(v.n)>>
      [] v.t = "null" -> <<TNull>>
      [] v.t = "bool" -> <<IF v.b THEN TTrue ELSE TFalse>>
      [] v.t = "float" -> <<TFloat(v.neg, v.m, v.e)>>
      [] v.t = "nan"  -> <<TNaN>>
      [] v.t = "inf"  -> <<IF v.neg THEN TNegInf ELSE TInf>>
      [] v.t = "list" -> <<LBracket>> \o DumpElems(v.l, 1) \o <<RBracket>>
      [] v.t = "dict" -> <<LBrace>> \o DumpItems(v.d, 1) \o <<RBrace>>

Fail == [ok |-> FALSE, v |-> PNull, i |-> 0]

RECURSIVE ParseValue(_, _)
RECURSIVE ParseItems(_, _, _)
RECURSIVE ParseElems(_, _, _)

\* the items of an object after its "{" or after a comma; acc is the dict
\* decoded so far (a repeated key takes the later value)
ParseItems(toks, i, acc) ==
    IF i + 1 > Len(toks) \/ ~IsTStr(toks[i]) \/ toks[i + 1] # Colon THEN Fail
    ELSE LET r == ParseValue(toks, i + 2) IN
         IF ~r.ok \/ r.i > Len(toks) THEN Fail
         ELSE LET acc2 == Put(acc, toks[i].s, r.v) IN
              IF toks[r.i] = RBrace THEN [ok |-> TRUE, v |-> acc2, i |-> r.i + 1]
              ELSE IF toks[r.i] = Comma THEN ParseItems(toks, r.i + 1, acc2)
              ELSE Fail

\* the elements of an array after its "[" or after a comma
ParseElems(toks, i, acc) ==
    LET r == ParseValue(toks, i) IN
    IF ~r.ok \/ r.i > Len(toks) THEN Fail
    ELSE LET acc2 == Append(acc, r.v) IN
         IF toks[r.i] = RBracket THEN [ok |-> TRUE, v |-> PList(acc2), i |-> r.i + 1]
         ELSE IF toks[r.i] = Comma THEN ParseElems(toks, r.i + 1, acc2)
         ELSE Fail

\* one JSON value starting at token i: [ok, v, i] with i the next token
ParseValue(toks, i) ==
    IF i > Len(toks) THEN Fail
    ELSE LET tok == toks[i] IN
         IF IsTStr(tok) THEN [ok |-> TRUE, v |-> PStr(tok.s), i |-> i + 1]
         ELSE IF IsTNum(tok) THEN [ok |-> TRUE, v |-> PNum(tok.n), i |-> i + 1]
         ELSE IF IsTFloat(tok)
         THEN [ok |-> TRUE, v |-> PFloat(tok.neg, tok.m, tok.e), i |-> i + 1]
         ELSE IF tok = TNull THEN [ok |-> TRUE, v |-> PNull, i |-> i + 1]
         ELSE IF tok = TTrue THEN [ok |-> TRUE, v |-> PBool(TRUE), i |-> i + 1]
         ELSE IF tok = TFalse THEN [ok |-> TRUE, v |-> PBool(FALSE), i |-> i + 1]
         ELSE IF tok = TNaN THEN [ok |-> TRUE, v |-> PNaN, i |-> i + 1]
         ELSE IF tok = TInf THEN [ok |-> TRUE, v |-> PInf(FALSE), i |-> i + 1]
         ELSE IF tok = TNegInf THEN [ok |-> TRUE, v |-> PInf(TRUE), i |-> i + 1]
         ELSE IF tok = LBracket THEN
              IF i + 1 <= Len(toks) /\ toks[i + 1] = RBracket
              THEN [ok |-> TRUE, v |-> PList(<<>>), i |-> i + 2]
              ELSE ParseElems(toks, i + 1, <<>>)
         ELSE IF tok = LBrace THEN
              IF i + 1 <= Len(toks) /\ toks[i + 1] = RBrace
              THEN [ok |-> TRUE, v |-> EmptyDict, i |-> i + 2]
              ELSE ParseItems(toks, i + 1, EmptyDict)
         ELSE Fail

\* json.loads(text): [ok, v]; ok is FALSE where json.loads raises
loads(toks) ==
    LET r == ParseValue(toks, 1) IN
    IF r.ok /\ r.i = Len(toks) + 1 THEN [ok |-> TRUE, v |-> r.v]
    ELSE [ok |-> FALSE, v |-> PNull]

-----------------------------------------------------------------------------
(* Cache store *)

STATE_CACHE_FILENAME == "state_cache.json"
PARK_CACHE_FILENAME  == "park_cache.json"
NEAR_CACHE_FILENAME  == "near_cache.json"

FileNames == {STATE_CACHE_FILENAME, PARK_CACHE_FILENAME, NEAR_CACHE_FILENAME}

\* a file: absent, or present with its text
NoFile     == [exists |-> FALSE, text |-> <<>>]
File(toks) == [exists |-> TRUE, text |-> toks]

\* open_cache that catches the missing file only
open_cache_missing_only(fs, cache_filename) ==
    IF ~fs[cache_filename].exists THEN EmptyDict
    ELSE loads(fs[cache_filename].text).v

\* open_cache(cache_filename) on the file system fs: open() or json.loads
\* raising is caught by the bare except
open_cache(fs, cache_filename) ==
    IF ~fs[cache_filename].exists THEN EmptyDict
    ELSE LET r == loads(fs[cache_filename].text) IN
         IF r.ok THEN r.v ELSE EmptyDict

\* save_cache that returns without writing
save_cache_skip(fs, cache_dict, filename) == fs

\* save_cache opening the file to append
save_cache_append(fs, cache_dict, filename) ==
    [fs EXCEPT ![filename] = File(@.text \o dumps(cache_dict))]

\* save_cache(cache_dict, filename): the file system it leaves
save_cache(fs, cache_dict, filename) ==
    [fs EXCEPT ![filename] = File(dumps(cache_dict))]

-----------------------------------------------------------------------------
(* Strings *)

\* A character is a string of length one.  A string of TLA+ holds the
\* characters of code points 0 to 255, and the tables below are those of
\* Python's str for that range.

\* the characters str.lower changes, and what it makes of each
UpperCase == <<"A", "B", "C", "D", "E", "F", "G", "H", "I", "J", "K", "L", "M",
               "N", "O", "P", "Q", "R", "S", "T", "U", "V", "W", "X", "Y", "Z",
               "À", "Á", "Â", "Ã", "Ä", "Å", "Æ", "Ç", "È", "É", "Ê", "Ë", "Ì",
               "Í", "Î", "Ï", "Ð", "Ñ", "Ò", "Ó", "Ô", "Õ", "Ö", "Ø", "Ù", "Ú",
               "Û", "Ü", "Ý", "Þ">>
LowerCase == <<"a", "b", "c", "d", "e", "f", "g", "h", "i", "j", "k", "l", "m",
               "n", "o", "p", "q", "r", "s", "t", "u", "v", "w", "x", "y", "z",
               "à", "á", "â", "ã", "ä", "å", "æ", "ç", "è", "é", "ê", "ë", "ì",
               "í", "î", "ï", "ð", "ñ", "ò", "ó", "ô", "õ", "ö", "ø", "ù", "ú",
               "û", "ü", "ý", "þ">>

Uppers == {UpperCase[i] : i \in 1..Len(UpperCase)}

\* the characters str.strip takes off (str.isspace): tab, line feed, vertical
\* tab, form feed, carriage return, the separators 1C to 1F, space, next
\* line (85) and no-break space (A0)
WhiteSpace == {"\t", "\n", "", "\f", "\r", "", "", "", "", " ", "", " "}

\* the characters int takes off: those of str.strip but the separators 1C to 1F
IntSpace == {"\t", "\n", "", "\f", "\r", " ", "", " "}

\* the decimal digits
Digits == <<"0", "1", "2", "3", "4", "5", "6", "7", "8", "9">>

DigitSet == {Digits[i] : i \in 1..Len(Digits)}

\* c.lower() of one character
LowerChar(c) ==
    IF c \in Uppers
    THEN LowerCase[CHOOSE i \in 1..Len(UpperCase) : UpperCase[i] = c]
    ELSE c

RECURSIVE Str(_)
\* the str made of the characters cs
Str(cs) == IF Len(cs) = 0 THEN "" ELSE cs[1] \o Str(Tail(cs))

\* text.lower()
lower(cs) == Str([i \in 1..Len(cs) |-> LowerChar(cs[i])])

RECURSIVE DropLeft(_, _)
\* cs without its leading characters of S
DropLeft(cs, S) == IF Len(cs) > 0 /\ cs[1] \in S THEN DropLeft(Tail(cs), S) ELSE cs

RECURSIVE DropRight(_, _)
\* cs without its trailing characters of S
DropRight(cs, S) ==
    IF Len(cs) > 0 /\ cs[Len(cs)] \in S
    THEN DropRight(SubSeq(cs, 1, Len(cs) - 1), S) ELSE cs

lstrip(cs) == DropLeft(cs, WhiteSpace)

rstrip(cs) == DropRight(cs, WhiteSpace)

\* text.strip()
strip(cs) == Str(rstrip(lstrip(cs)))

\* text[1:]
FromSecond(cs) == Str(SubSeq(cs, 2, Len(cs)))

IsDigit(c) == c \in DigitSet

\* the value of a decimal digit: the digits of each script run from 0 to 9
DigitValue(c) == ((CHOOSE i \in 1..Len(Digits) : Digits[i] = c) - 1) % 10

RECURSIVE DigitsValue(_)
DigitsValue(cs) ==
    IF Len(cs) = 0 THEN 0
    ELSE 10 * DigitsValue(SubSeq(cs, 1, Len(cs) - 1)) + DigitValue(cs[Len(cs)])

\* int(text): [ok, n]; ok is FALSE where int raises ValueError.  Surrounding
\* white space and one sign are accepted, then decimal digits of any script,
\* with single underscores between digits.
int(cs) ==
    LET b == DropRight(DropLeft(cs, IntSpace), IntSpace)
        signed == Len(b) > 0 /\ b[1] \in {"+", "-"}
        body == IF signed THEN Tail(b) ELSE b
        ds == SelectSeq(body, IsDigit)
    IN  IF /\ Len(body) > 0 /\ IsDigit(body[1]) /\ IsDigit(body[Len(body)])
           /\ \A i \in 1..Len(body) :
                 \/ IsDigit(body[i])
                 \/ body[i] = "_" /\ IsDigit(body[i - 1]) /\ IsDigit(body[i + 1])
        THEN [ok |-> TRUE,
              n |-> IF signed /\ b[1] = "-" THEN 0 - DigitsValue(ds) ELSE DigitsValue(ds)]
        ELSE [ok |-> FALSE, n |-> 0]

-----------------------------------------------------------------------------
(* str() and repr() of a value, as "{}".format prints it *)

RECURSIVE NatStr(_)
NatStr(n) ==
    IF n < 10 THEN <<Digits[n + 1]>>
    ELSE NatStr(n \div 10) \o <<Digits[(n % 10) + 1]>>

\* the decimal numeral of an integer
Numeral(n) == IF n < 0 THEN <<"-">> \o NatStr(0 - n) ELSE NatStr(n)

\* str(n) of an integer, as "{}".format(n) prints it
IntStr(n) == Str(Numeral(n))

\* n zeros
Zeros(n) == Str([i \in 1..n |-> "0"])

\* repr of the positive float m * 10^e, m without trailing zeros: with a
\* point when the point falls within 16 digits before and 4 after the first
\* digit, with an exponent otherwise
FloatStr(m, e) ==
    LET ds    == NatStr(m)
        n     == Len(ds)
        decpt == n + e
        x     == decpt - 1
    IN  IF m = 0 THEN "0.0"
        ELSE IF decpt > 16 \/ decpt < 0 - 3
        THEN ds[1] \o (IF n > 1 THEN "." \o Str(Tail(ds)) ELSE "")
             \o "e" \o (IF x < 0 THEN "-" ELSE "+")
             \o (IF x > 0 - 10 /\ x < 10 THEN "0" ELSE "")
             \o IntStr(IF x < 0 THEN 0 - x ELSE x)
        ELSE IF decpt <= 0 THEN "0." \o Zeros(0 - decpt) \o Str(ds)
        ELSE IF decpt >= n THEN Str(ds) \o Zeros(decpt - n) \o ".0"
        ELSE Str(SubSeq(ds, 1, decpt)) \o "." \o Str(SubSeq(ds, decpt + 1, n))

\* the characters of a str
Chars(s) == [i \in 1..Len(s) |-> SubSeq(s, i, i)]

\* the characters repr writes as an escape whatever the quote, and the
\* escape of each (but the character of code point 0, which the text of a
\* module cannot hold)
Unprintable == <<"", "", "", "", "", "", "", "", "\t", "\n", "", "\f",
                 "\r", "", "", "", "", "", "", "", "", "", "", "", "",
                 "", "", "", "", "", "", "", "", "", "", "", "", "",
                 "", "", "", "", "", "", "", "", "", "", "", "", "",
                 "", "", "", "", "", "", "", "", "", "", "", "", "",
                 " ", "­">>
Escapes == <<"\\x01", "\\x02", "\\x03", "\\x04", "\\x05", "\\x06", "\\x07",
             "\\x08", "\\t", "\\n", "\\x0b", "\\x0c", "\\r", "\\x0e", "\\x0f",
             "\\x10", "\\x11", "\\x12", "\\x13", "\\x14", "\\x15", "\\x16", "\\x17",
             "\\x18", "\\x19", "\\x1a", "\\x1b", "\\x1c", "\\x1d", "\\x1e", "\\x1f",
             "\\x7f", "\\x80", "\\x81", "\\x82", "\\x83", "\\x84", "\\x85", "\\x86",
             "\\x87", "\\x88", "\\x89", "\\x8a", "\\x8b", "\\x8c", "\\x8d", "\\x8e",
             "\\x8f", "\\x90", "\\x91", "\\x92", "\\x93", "\\x94", "\\x95", "\\x96",
             "\\x97", "\\x98", "\\x99", "\\x9a", "\\x9b", "\\x9c", "\\x9d", "\\x9e",
             "\\x9f", "\\xa0", "\\xad">>
\* repr(s) of a str: in single quotes, or in double quotes when s has a single
\* quote and no double one; the quote, the backslash and the unprintable
\* characters escaped
ReprStr(s) ==
    LET cs == Chars(s)
        has(c) == \E i \in 1..Len(cs) : cs[i] = c
        quote == IF has("'") /\ ~has("\"") THEN "\"" ELSE "'"
        esc(c) ==
            IF c = quote \/ c = "\\" THEN "\\" \o c
            ELSE IF \E i \in 1..Len(Unprintable) : Unprintable[i] = c
            THEN Escapes[CHOOSE i \in 1..Len(Unprintable) : Unprintable[i] = c]
            ELSE c
    IN  quote \o Str([i \in 1..Len(cs) |-> esc(cs[i])]) \o quote

RECURSIVE Join(_, _)
\* sep.join(strs)
Join(strs, sep) ==
    IF Len(strs) = 0 THEN ""
    ELSE IF Len(strs) = 1 THEN strs[1]
    ELSE strs[1] \o sep \o Join(Tail(strs), sep)

RECURSIVE PyRepr(_)
\* repr(v)
PyRepr(v) ==
    CASE v.t = "str"   -> ReprStr(v.s)
      [] v.t = "num"   -> IntStr(v.n)
      [] v.t = "float" -> (IF v.neg THEN "-" ELSE "") \o FloatStr(v.m, v.e)
      [] v.t = "nan"   -> "nan"
      [] v.t = "inf"   -> IF v.neg THEN "-inf" ELSE "inf"
      [] v.t = "bool"  -> IF v.b THEN "True" ELSE "False"
      [] v.t = "null"  -> "None"
      [] v.t = "list"  -> "[" \o Join([i \in 1..Len(v.l) |-> PyRepr(v.l[i])], ", ") \o "]"
      [] v.t = "dict"  ->
            "{" \o Join([i \in 1..Len(v.d) |->
                            ReprStr(v.d[i][1]) \o ": " \o PyRepr(v.d[i][2])], ", ") \o "}"

\* str(v), what "{}".format(v) prints: a str as it is, any other value as
\* its repr
PyStr(v) == IF v.t = "str" THEN v.s ELSE PyRepr(v)

k_category == "category"
k_name     == "name"
k_address  == "address"
k_zipcode  == "zipcode"
k_phone    == "phone"
k_city     == "city"
k_fields   == "fields"
k_searchResults == "searchResults"
k_group_sic_code_name == "group_sic_code_name"

base_url == "https://www.nps.gov"

-----------------------------------------------------------------------------
(* NationalSite *)

\* NationalSite(category, name, address, zipcode, phone): each attribute is
\* the Python value it was given
NationalSite(category, name, address, zipcode, phone) ==
    [category |-> category, name |-> name, address |-> address,
     zipcode |-> zipcode, phone |-> phone]

\* info() that formats the phone too
info_with_phone(site) ==
    PyStr(site.name) \o " (" \o PyStr(site.category) \o "): " \o PyStr(site.address)
    \o " " \o PyStr(site.zipcode) \o " " \o PyStr(site.phone)

\* NationalSite.info(): "{} ({}): {} {}".format(name, category, address, zipcode)
info(site) ==
    PyStr(site.name) \o " (" \o PyStr(site.category) \o "): " \o PyStr(site.address)
    \o " " \o PyStr(site.zipcode)

\* site.__dict__: the attributes in the order __init__ sets them
obj_dict(site) ==
    PDict(<< <<k_category, site.category>>, <<k_name, site.name>>,
             <<k_address, site.address>>, <<k_zipcode, site.zipcode>>,
             <<k_phone, site.phone>> >>)

-----------------------------------------------------------------------------
(* Bounds *)

\* the longest navigation dropdown of the index page
MaxLinks == 2

\* the most site entries of a state page (before its trailing entry)
MaxSites == 1

SeqsUpTo(S, n) == UNION {[1..k -> S] : k \in 0..n}

-----------------------------------------------------------------------------
(* The web: what a GET can answer *)

\* requests.get raising (no connection)
ConnErr == [err |-> TRUE]

IsErr(resp) == "err" \in DOMAIN resp

\* a failed request: no connection, or an answer whose status is not 200
Failed(resp) == IsErr(resp) \/ resp.status # 200

\* the <a> elements a dropdown can hold
Links ==
    { [text |-> <<"M","i">>, href |-> <<"/","m">>],
      [text |-> <<"m","i">>, href |-> <<"/","o">>],
      [text |-> <<"O","h">>, href |-> <<"/","o">>] }

\* index pages: the <ul class="dropdown-menu SearchBar-keywordSearch"> elements
\* of the page, each the sequence of its <a>; an error page has none
IndexPages ==
    {[uls |-> <<>>, status |-> 404]}
    \cup {[uls |-> <<a>>, status |-> 200] : a \in SeqsUpTo(Links, MaxLinks)}

IndexResponses == {ConnErr} \cup IndexPages

\* <li class="clearfix"> elements: a site entry with its h3/a link, or an
\* entry without h3
DataLi(href) == [h3 |-> TRUE, href |-> href]
OtherLi      == [h3 |-> FALSE, href |-> <<>>]

SiteHrefs == {<<"/","s">>}

\* state pages: no entry at all (an error page), site entries followed by the
\* trailing entry, or an entry without h3 before the trailing one
StatePages ==
    {[lis |-> <<>>, status |-> 404], [lis |-> <<OtherLi, OtherLi>>, status |-> 200]}
    \cup {[lis |-> d \o <<OtherLi>>, status |-> 200] :
             d \in SeqsUpTo({DataLi(h) : h \in SiteHrefs}, MaxSites)}

StateResponses == {ConnErr} \cup StatePages

SitePage(title, designation, locality, region, postal, telephone) ==
    [title |-> title, designation |-> designation, locality |-> locality,
     region |-> region, postal |-> postal, telephone |-> telephone, status |-> 200]

\* site pages: a site, another site with a blank category and a form feed
\* before its postal code, and a page that lacks the elements after the title
pgA == SitePage(<<"R">>, <<"P">>, <<"H">>, <<"M">>, <<" ","4"," ","9"," ">>, <<"(","1">>)
pgD == SitePage(<<"K">>, <<>>, <<"L">>, <<"O">>, <<"\f","7">>, <<"3">>)
pgCut == [title |-> <<"R">>, status |-> 200]

SitePages == {pgA, pgD, pgCut}

SiteResponses == {ConnErr} \cup SitePages

k_info == "info"

k_lat == "lat"
k_options == "options"
k_ambiguities == "ambiguities"

\* a place of the API: its fields, with the latitude the API gives beside
\* the four the session prints
Place(name, address, category, city) ==
    PDict(<< <<k_fields,
               PDict(<< <<k_name, name>>, <<k_address, address>>,
                        <<k_group_sic_code_name, category>>, <<k_city, city>>,
                        <<k_lat, PFloat(FALSE, 475, 0 - 1)>> >>)>> >>)

\* API answers: one place (with a blank address and no city) and the options
\* of the search, an error document without searchResults, a body that is no
\* JSON
apiGood ==
    PDict(<< <<k_searchResults,
               PList(<<Place(PStr("N"), PStr(""), PStr("G"), PNull)>>)>>,
             <<k_options, PDict(<< <<k_ambiguities, PBool(TRUE)>> >>)>> >>)
apiError == PDict(<< <<k_info, PNum(403)>> >>)

ApiBodies == {dumps(apiGood), dumps(apiError), <<[p |-> "<html>"]>>}

\* the status the API sends with a body
ApiStatus(b) == IF b = dumps(apiGood) THEN 200 ELSE IF b = dumps(apiError) THEN 403 ELSE 500

ApiResponses == {ConnErr} \cup {[body |-> b, status |-> ApiStatus(b)] : b \in ApiBodies}

-----------------------------------------------------------------------------
(* The process state the fetchers read and write *)

World ==
    [STATE |-> STATE_CACHE_DICT, PARK |-> PARK_CACHE_DICT, NEAR |-> NEAR_CACHE_DICT,
     files |-> files, gets |-> gets, dirty |-> dirty, out |-> <<>>]

\* a printed line: print(fmt.format(args)), args as strings
Line(fmt, args) == [fmt |-> fmt, args |-> args]

\* print(line)
Say(w, line) == [w EXCEPT !.out = Append(@, line)]

\* a fetcher's outcome: raised or returned ret, leaving world w
Raised(w)        == [crash |-> TRUE, ret |-> PNull, w |-> w]
Returned(ret, w) == [crash |-> FALSE, ret |-> ret, w |-> w]

\* requests.get(url)
Got(w) == [w EXCEPT !.gets = @ + 1]

-----------------------------------------------------------------------------
(* Directory Fetcher *)

RECURSIVE state_name_dict_first(_, _, _)
\* the loop of build_state_url_dict keeping the first link of a state name
state_name_dict_first(mydivs, i, acc) ==
    IF i > Len(mydivs) THEN acc
    ELSE state_name_dict_first(mydivs, i + 1,
            IF HasKey(acc, lower(mydivs[i].text)) THEN acc
            ELSE Put(acc, lower(mydivs[i].text), PStr(base_url \o Str(mydivs[i].href))))

RECURSIVE state_name_dict(_, _, _)
\* the loop of build_state_url_dict over mydivs, from the i-th <a> on
state_name_dict(mydivs, i, acc) ==
    IF i > Len(mydivs) THEN acc
    ELSE state_name_dict(mydivs, i + 1,
                         Put(acc, lower(mydivs[i].text), PStr(base_url \o Str(mydivs[i].href))))

\* build_state_url_dict that fetches whatever the state map holds
build_state_url_dict_always(w, resp) ==
    LET w0 == Got(Say(w, Line("Fetching States!", <<>>))) IN
    IF IsErr(resp) THEN Raised(w0)
    ELSE IF Len(resp.uls) = 0 THEN Raised(w0)
    ELSE LET d  == state_name_dict(resp.uls[1], 1, EmptyDict)
             w1 == [w0 EXCEPT !.STATE = d, !.dirty = @ \cup {STATE_CACHE_FILENAME}]
             w2 == [w1 EXCEPT !.files = save_cache(w1.files, w1.STATE, STATE_CACHE_FILENAME)]
         IN  Returned(w2.STATE, w2)

\* build_state_url_dict(), resp the answer to its GET if it issues one
build_state_url_dict(w, resp) ==
    IF ~Truthy(w.STATE)
    THEN LET w0 == Got(Say(w, Line("Fetching States!", <<>>))) IN
         IF IsErr(resp) THEN Raised(w0)
         ELSE IF Len(resp.uls) = 0 THEN Raised(w0)
         ELSE LET d  == state_name_dict(resp.uls[1], 1, EmptyDict)
                  w1 == [w0 EXCEPT !.STATE = d, !.dirty = @ \cup {STATE_CACHE_FILENAME}]
                  w2 == [w1 EXCEPT !.files = save_cache(w1.files, w1.STATE, STATE_CACHE_FILENAME)]
              IN  Returned(w2.STATE, w2)
    ELSE Returned(w.STATE, Say(w, Line("Using cache!", <<>>)))

-----------------------------------------------------------------------------
(* Site Detail Parser *)

SiteElements == {"title", "designation", "locality", "region", "postal", "telephone"}

\* whether get_site_instance returns: the GET answers and soup.find finds
\* each of the six elements
SiteOk(resp) == ~IsErr(resp) /\ SiteElements \subseteq DOMAIN resp

\* get_site_instance(site_url), resp the answer to its GET
get_site_instance(resp) ==
    NationalSite(PStr(Str(resp.designation)), PStr(Str(resp.title)),
                 PStr(Str(resp.locality) \o ", " \o Str(resp.region)),
                 PStr(strip(resp.postal)), PStr(FromSecond(resp.telephone)))

-----------------------------------------------------------------------------
(* Site List Fetcher *)

SiteKeys == {k_category, k_name, k_address, k_zipcode, k_phone}

\* whether cache_to_obj returns: the loop body runs on each element of a
\* list when the element is a dict with the five keys; it raises on a key of
\* a dict and on a character of a str, which are no dict, so that of these
\* only the empty ones pass; any other value is not iterable
CacheListOk(dict_ls) ==
    \/ /\ dict_ls.t = "list"
       /\ \A i \in 1..Len(dict_ls.l) :
             /\ dict_ls.l[i].t = "dict"
             /\ SiteKeys \subseteq KeySet(dict_ls.l[i])
    \/ dict_ls.t = "dict" /\ Len(dict_ls.d) = 0
    \/ dict_ls.t = "str" /\ Len(dict_ls.s) = 0

\* cache_to_obj building the list from the last element to the first
cache_to_obj_reversed(dict_ls) ==
    IF dict_ls.t # "list" THEN <<>>
    ELSE [i \in 1..Len(dict_ls.l) |->
            NationalSite(Get(dict_ls.l[Len(dict_ls.l) + 1 - i], k_category),
                         Get(dict_ls.l[Len(dict_ls.l) + 1 - i], k_name),
                         Get(dict_ls.l[Len(dict_ls.l) + 1 - i], k_address),
                         Get(dict_ls.l[Len(dict_ls.l) + 1 - i], k_zipcode),
                         Get(dict_ls.l[Len(dict_ls.l) + 1 - i], k_phone))]

\* cache_to_obj(dict_ls), where it returns: one NationalSite for each element
\* of a list, with the five values of the element whatever their type; no
\* NationalSite for the empty dict and the empty str
cache_to_obj(dict_ls) ==
    IF dict_ls.t # "list" THEN <<>>
    ELSE [i \in 1..Len(dict_ls.l) |->
            NationalSite(Get(dict_ls.l[i], k_category), Get(dict_ls.l[i], k_name),
                         Get(dict_ls.l[i], k_address), Get(dict_ls.l[i], k_zipcode),
                         Get(dict_ls.l[i], k_phone))]

\* whether "v in d.keys()" can be asked: a list or a dict is unhashable
Hashable(v) == v.t \notin {"list", "dict"}

\* soup.find_all("li", class_="clearfix")[0:-1]
AllButLast(lis) == SubSeq(lis, 1, Len(lis) - 1)

\* the site entries the loop of get_sites_for_state visits on a page
Entries(page) == IF IsErr(page) THEN <<>> ELSE AllButLast(page.lis)

\* the loop body for the i-th entry raises: no h3, or one of its two
\* get_site_instance calls raises
EntryFails(lis, resps, i) ==
    ~lis[i].h3 \/ ~SiteOk(resps[2 * i - 1]) \/ ~SiteOk(resps[2 * i])

\* the GETs the loop body issues for the i-th entry when it raises
EntryGets(lis, resps, i) ==
    IF ~lis[i].h3 THEN 0 ELSE IF ~SiteOk(resps[2 * i - 1]) THEN 1 ELSE 2

\* get_sites_for_state assigning a new map with the one entry it fetched
get_sites_for_state_fresh_map(w, state_url, page, resps) ==
    IF ~IsDict(w.PARK) \/ ~Hashable(state_url) THEN Raised(w)
    ELSE IF state_url.t = "str" /\ HasKey(w.PARK, state_url.s)
    THEN LET w0 == Say(w, Line("Using cache", <<>>)) IN
         IF CacheListOk(Get(w.PARK, state_url.s))
         THEN Returned(cache_to_obj(Get(w.PARK, state_url.s)), w0)
         ELSE Raised(w0)
    ELSE IF state_url.t # "str" \/ IsErr(page)
    THEN Raised(Got(Say(w, Line("Fetching Parks!", <<>>))))
    ELSE LET w0  == Say(w, Line("Fetching Parks!", <<>>))
             lis == AllButLast(page.lis)
             n   == Len(lis)
             bad == {i \in 1..n : EntryFails(lis, resps, i)}
         IN  IF bad # {}
             THEN LET f == CHOOSE i \in bad : \A j \in bad : i <= j
                  IN  Raised([w0 EXCEPT !.gets = @ + 1 + 2 * (f - 1) + EntryGets(lis, resps, f)])
             ELSE LET national_site_ls  == [i \in 1..n |-> obj_dict(get_site_instance(resps[2 * i - 1]))]
                      national_site_ins == [i \in 1..n |-> get_site_instance(resps[2 * i])]
                      w1 == [w0 EXCEPT !.gets = @ + 1 + 2 * n,
                                       !.PARK = Put(EmptyDict, state_url.s, PList(national_site_ls)),
                                       !.dirty = @ \cup {PARK_CACHE_FILENAME}]
                      w2 == [w1 EXCEPT !.files = save_cache(w1.files, w1.PARK, PARK_CACHE_FILENAME)]
                  IN  Returned(national_site_ins, w2)

\* get_sites_for_state(state_url): page answers the GET of the state page,
\* resps[2i-1] and resps[2i] the two GETs for the i-th entry's detail page.
\* state_url is the value the state map holds: a list or a dict is no key to
\* look up, any other value that is no str is a key the site-list map does
\* not have and a URL requests.get raises on.
get_sites_for_state(w, state_url, page, resps) ==
    IF ~IsDict(w.PARK) \/ ~Hashable(state_url) THEN Raised(w)
    ELSE IF state_url.t = "str" /\ HasKey(w.PARK, state_url.s)
    THEN LET w0 == Say(w, Line("Using cache", <<>>)) IN
         IF CacheListOk(Get(w.PARK, state_url.s))
         THEN Returned(cache_to_obj(Get(w.PARK, state_url.s)), w0)
         ELSE Raised(w0)
    ELSE IF state_url.t # "str" \/ IsErr(page)
    THEN Raised(Got(Say(w, Line("Fetching Parks!", <<>>))))
    ELSE LET w0  == Say(w, Line("Fetching Parks!", <<>>))
             lis == AllButLast(page.lis)
             n   == Len(lis)
             bad == {i \in 1..n : EntryFails(lis, resps, i)}
         IN  IF bad # {}
             THEN LET f == CHOOSE i \in bad : \A j \in bad : i <= j
                  IN  Raised([w0 EXCEPT !.gets = @ + 1 + 2 * (f - 1) + EntryGets(lis, resps, f)])
             ELSE LET national_site_ls  == [i \in 1..n |-> obj_dict(get_site_instance(resps[2 * i - 1]))]
                      national_site_ins == [i \in 1..n |-> get_site_instance(resps[2 * i])]
                      w1 == [w0 EXCEPT !.gets = @ + 1 + 2 * n,
                                       !.PARK = Put(w.PARK, state_url.s, PList(national_site_ls)),
                                       !.dirty = @ \cup {PARK_CACHE_FILENAME}]
                      w2 == [w1 EXCEPT !.files = save_cache(w1.files, w1.PARK, PARK_CACHE_FILENAME)]
                  IN  Returned(national_site_ins, w2)

-----------------------------------------------------------------------------
(* Nearby Fetcher *)

\* get_nearby_places that never looks its key up
get_nearby_places_refetch(w, site_object, resp) ==
    LET near_key == info(site_object)
        w0     == Got(Say(w, Line("Fetching near places", <<>>)))
        places == IF IsErr(resp) THEN [ok |-> FALSE, v |-> PNull] ELSE loads(resp.body)
    IN  IF ~IsDict(w.NEAR) \/ ~places.ok THEN Raised(w0)
        ELSE LET w1 == [w0 EXCEPT !.NEAR = Put(w.NEAR, near_key, places.v),
                                  !.dirty = @ \cup {NEAR_CACHE_FILENAME}]
                 w2 == [w1 EXCEPT !.files = save_cache(w1.files, w1.NEAR, NEAR_CACHE_FILENAME)]
             IN  Returned(Get(w2.NEAR, near_key), w2)

\* get_nearby_places that returns what it fetched without storing it
get_nearby_places_nostore(w, site_object, resp) ==
    LET near_key == info(site_object) IN
    IF ~IsDict(w.NEAR) THEN Raised(w)
    ELSE IF HasKey(w.NEAR, near_key)
    THEN Returned(Get(w.NEAR, near_key), Say(w, Line("Using cache", <<>>)))
    ELSE LET w0     == Got(Say(w, Line("Fetching near places", <<>>)))
             places == IF IsErr(resp) THEN [ok |-> FALSE, v |-> PNull] ELSE loads(resp.body)
         IN
         IF ~places.ok THEN Raised(w0) ELSE Returned(places.v, w0)

\* get_nearby_places that caches an answer only when it has searchResults
get_nearby_places_validating(w, site_object, resp) ==
    LET near_key == info(site_object) IN
    IF ~IsDict(w.NEAR) THEN Raised(w)
    ELSE IF HasKey(w.NEAR, near_key)
    THEN Returned(Get(w.NEAR, near_key), Say(w, Line("Using cache", <<>>)))
    ELSE LET w0     == Got(Say(w, Line("Fetching near places", <<>>)))
             places == IF IsErr(resp) THEN [ok |-> FALSE, v |-> PNull] ELSE loads(resp.body)
         IN
         IF ~places.ok THEN Raised(w0)
         ELSE IF ~(IsDict(places.v) /\ HasKey(places.v, k_searchResults)) THEN Raised(w0)
         ELSE LET w1 == [w0 EXCEPT !.NEAR = Put(w.NEAR, near_key, places.v),
                                       !.dirty = @ \cup {NEAR_CACHE_FILENAME}]
                  w2 == [w1 EXCEPT !.files = save_cache(w1.files, w1.NEAR, NEAR_CACHE_FILENAME)]
              IN  Returned(Get(w2.NEAR, near_key), w2)

\* get_nearby_places(site_object), resp the answer to its GET if it issues one
get_nearby_places(w, site_object, resp) ==
    LET near_key == info(site_object) IN
    IF ~IsDict(w.NEAR) THEN Raised(w)
    ELSE IF HasKey(w.NEAR, near_key)
    THEN Returned(Get(w.NEAR, near_key), Say(w, Line("Using cache", <<>>)))
    ELSE LET w0     == Got(Say(w, Line("Fetching near places", <<>>)))
             places == IF IsErr(resp) THEN [ok |-> FALSE, v |-> PNull] ELSE loads(resp.body)
         IN
         IF ~places.ok THEN Raised(w0)
         ELSE LET w1 == [w0 EXCEPT !.NEAR = Put(w.NEAR, near_key, places.v),
                                       !.dirty = @ \cup {NEAR_CACHE_FILENAME}]
                  w2 == [w1 EXCEPT !.files = save_cache(w1.files, w1.NEAR, NEAR_CACHE_FILENAME)]
              IN  Returned(Get(w2.NEAR, near_key), w2)

-----------------------------------------------------------------------------
(* Interactive Session *)

\* l[i] with Python's 0-based index, negative from the end
PyIndexOk(l, i) == 0 - Len(l) <= i /\ i < Len(l)
PyIndex(l, i)   == IF i >= 0 THEN l[i + 1] ELSE l[Len(l) + i + 1]

no_name     == "no name"
no_address  == "no address"
no_category == "no category"
no_city     == "no city"

\* "x" if not tmp[key] else tmp[key], as format prints it
OrElse(tmp, key, placeholder) ==
    IF Truthy(Get(tmp, key)) THEN PyStr(Get(tmp, key)) ELSE placeholder

PlaceKeys == {k_name, k_address, k_group_sic_code_name, k_city}

\* whether the loop body that prints near_places[i] runs without raising
PlaceOk(item) ==
    /\ item.t = "dict" /\ HasKey(item, k_fields)
    /\ Get(item, k_fields).t = "dict"
    /\ PlaceKeys \subseteq KeySet(Get(item, k_fields))

\* the line the loop body prints for near_places[i]
PlaceLine(item) ==
    LET tmp == Get(item, k_fields) IN
    Line("- {} ({}): {}, {}",
         << OrElse(tmp, k_name, no_name), OrElse(tmp, k_group_sic_code_name, no_category),
            OrElse(tmp, k_address, no_address), OrElse(tmp, k_city, no_city) >>)

\* whether indexing the answer with "searchResults" and printing its places
\* runs without raising
PrintOk(places) ==
    /\ places.t = "dict" /\ HasKey(places, k_searchResults)
    /\ LET near_places == Get(places, k_searchResults) IN
          \/ near_places.t = "list" /\ \A i \in 1..Len(near_places.l) : PlaceOk(near_places.l[i])
          \/ near_places.t = "dict" /\ Len(near_places.d) = 0
          \/ near_places.t = "str" /\ Len(near_places.s) = 0

\* the places the loop prints: those of the list up to the first one its
\* body raises on
Printed(places) ==
    IF places.t = "dict" /\ HasKey(places, k_searchResults)
                         /\ Get(places, k_searchResults).t = "list"
    THEN LET l   == Get(places, k_searchResults).l
             bad == {i \in 1..Len(l) : ~PlaceOk(l[i])}
         IN  IF bad = {} THEN l
             ELSE SubSeq(l, 1, (CHOOSE i \in bad : \A j \in bad : i <= j) - 1)
    ELSE <<>>

\* the lines printed for the places of an answer
PlaceLines(places) == [i \in 1..Len(Printed(places)) |-> PlaceLine(Printed(places)[i])]

\* the numbered list of sites printed after a state is selected
SiteLines(state_name, ls) ==
    << Line("---------------------", <<>>),
       Line("List of national sites in {}", <<state_name>>),
       Line("---------------------", <<>>) >>
    \o [i \in 1..Len(ls) |-> Line("[{}] {}", <<IntStr(i), info(ls[i])>>)]

\* what the user can type at the state prompt
StateInputs ==
    { <<"e","x","i","t">>, <<"M","i">>, <<"o","h">>, <<"x">> }

\* what the user can type at the site prompt
SiteInputs ==
    { <<"b","a","c","k">>, <<"e","x","i","t">>, <<"x">> }
    \cup {Numeral(k) : k \in (0 - 1)..(MaxSites + 1)}

\* the record of a step: the text typed (inp), the cache key looked up (key),
\* whether the key was found (branch), how the step ended (res), the GETs it
\* issued (gets), the index page it received (page), what the fetcher
\* returned (ret, for the state map and the nearby places) and the lines
\* printed (out)
Step(step, inp, key, branch, res, n, page, ret, out, failed) ==
    [step |-> step, inp |-> inp, key |-> key, branch |-> branch, res |-> res,
     gets |-> n, page |-> page, ret |-> ret, out |-> out, failed |-> failed]

NoPage == [uls |-> <<>>]

\* a fetch from the network: of the index, of the sites of a state URL, of
\* the places near a site key
Fetch(what, key) == <<what, key>>

\* the fetches so far, after a fetcher left world w: one more when it issued
\* a GET
Log(w, what, key) ==
    IF w.gets > gets THEN Append(fetched, Fetch(what, key)) ELSE fetched

\* the module-level state a step leaves
Install(w) ==
    /\ STATE_CACHE_DICT' = w.STATE
    /\ PARK_CACHE_DICT' = w.PARK
    /\ NEAR_CACHE_DICT' = w.NEAR
    /\ files' = w.files
    /\ gets' = w.gets
    /\ dirty' = w.dirty

sample_state_url == base_url \o "/m"
\* the site of pgA as an earlier run cached it, with the phone it had then
sample_site      == [get_site_instance(pgA) EXCEPT !.phone = PStr("9")]

\* the documents an earlier run left in the three cache files
stateDoc == File(dumps(PDict(<< <<"mi", PStr(sample_state_url)>> >>)))
parkDoc  == File(dumps(PDict(<< <<sample_state_url, PList(<<obj_dict(sample_site)>>)>> >>)))
nearDoc  == File(dumps(PDict(<< <<info(sample_site), apiGood>> >>)))

\* the site-list document of an earlier run that found two sites on the state
\* page: the site of pgA, then the site of pgD
parkDoc2 ==
    File(dumps(PDict(<< <<sample_state_url,
                          PList(<<obj_dict(sample_site),
                                  obj_dict(get_site_instance(pgD))>>)>> >>)))

\* documents that are JSON and no JSON object
listDoc == File(<<LBracket, RBracket>>)
nullDoc == File(<<TNull>>)
\* a numeral too small for a double: json.loads reads it as 0.0
zeroDoc == File(<<TFloat(FALSE, 1, 0 - 400)>>)

Disk(sf, pf, nf) ==
    [f \in FileNames |->
        IF f = STATE_CACHE_FILENAME THEN sf
        ELSE IF f = PARK_CACHE_FILENAME THEN pf ELSE nf]

\* the nearby document of an earlier run that cached an error answer
errDoc == File(dumps(PDict(<< <<info(sample_site), apiError>> >>)))

\* what a process that died inside save_cache leaves of a document: open(.., "w")
\* emptied the file and only the first n tokens of the text reached it
Cut(file, n) == File(SubSeq(file.text, 1, n))

Partials(file) ==
    {Cut(file, n) : n \in {0, Len(file.text) \div 2, Len(file.text) - 1}}

\* the disks a run that died inside save_cache leaves
CrashedDisks ==
    {Disk(p, NoFile, NoFile) : p \in Partials(stateDoc)}
    \cup {Disk(stateDoc, p, NoFile) : p \in Partials(parkDoc)}
    \cup {Disk(stateDoc, parkDoc, p) : p \in Partials(nearDoc)}

\* the cache files a process can find: each absent or as an earlier run left
\* it, the site list being of one site or of two, or one of them holding a
\* document that is no JSON object or an error answer
Disks ==
    {Disk(sf, pf, nf) : sf \in {NoFile, stateDoc}, pf \in {NoFile, parkDoc},
                        nf \in {NoFile, nearDoc}}
    \cup {Disk(stateDoc, parkDoc2, nf) : nf \in {NoFile, nearDoc}}
    \cup {Disk(listDoc, NoFile, NoFile), Disk(zeroDoc, NoFile, NoFile),
          Disk(stateDoc, listDoc, NoFile),
          Disk(stateDoc, parkDoc, nullDoc), Disk(stateDoc, parkDoc, errDoc)}

\* module import on one of the given disks: the three maps are empty,
\* nothing has run
InitOn(disks) ==
    /\ pc = "boot"
    /\ STATE_CACHE_DICT = EmptyDict
    /\ PARK_CACHE_DICT = EmptyDict
    /\ NEAR_CACHE_DICT = EmptyDict
    /\ files \in disks
    /\ state_url_dict = EmptyDict
    /\ park_ls = <<>>
    /\ gets = 0
    /\ dirty = {}
    /\ fetched = <<>>
    /\ last = Step("boot", <<>>, "", "none", "ok", 0, NoPage, PNull, <<>>, FALSE)

Init == InitOn(Disks)

\* build_state_url_dict issues a GET
StateMiss(w) == ~Truthy(w.STATE)

\* get_sites_for_state(state_url) issues GETs
ParkMiss(w, state_url) ==
    /\ IsDict(w.PARK) /\ Hashable(state_url)
    /\ ~(state_url.t = "str" /\ HasKey(w.PARK, state_url.s))

\* get_nearby_places(site_object) issues a GET
NearMiss(w, site_object) == IsDict(w.NEAR) /\ ~HasKey(w.NEAR, info(site_object))

\* the module-level state after the three open_cache calls of __main__
Loaded(w) ==
    [w EXCEPT !.STATE = open_cache(files, STATE_CACHE_FILENAME),
              !.PARK = open_cache(files, PARK_CACHE_FILENAME),
              !.NEAR = open_cache(files, NEAR_CACHE_FILENAME)]

\* __main__ up to the first prompt, resp the answer to the GET if one is issued
Boot(resp) ==
    \E r \in {build_state_url_dict(Loaded(World), resp)} :
    /\ Install(r.w)
    /\ pc' = IF r.crash THEN "Crashed" ELSE "SelectState"
    /\ state_url_dict' = IF r.crash THEN state_url_dict ELSE r.ret
    /\ last' = Step("startup", <<>>, "",
                    IF StateMiss(Loaded(World)) THEN "miss" ELSE "hit",
                    IF r.crash THEN "crash" ELSE "ok", r.w.gets - gets,
                    IF StateMiss(Loaded(World)) /\ ~IsErr(resp) THEN resp ELSE NoPage,
                    r.ret, r.w.out, StateMiss(Loaded(World)) /\ Failed(resp))
    /\ fetched' = Log(r.w, "index", "")
    /\ UNCHANGED park_ls

\* __main__ up to the first prompt: load the three caches, build the state map
Startup ==
    /\ pc = "boot"
    /\ IF StateMiss(Loaded(World))
       THEN \E resp \in IndexResponses : Boot(resp)
       ELSE Boot(ConnErr)

\* a step of the session that changes nothing but its position and output
Only(step, inp, res, out, to) ==
    /\ pc' = to
    /\ last' = Step(step, inp, "", "none", res, 0, NoPage, PNull, out, FALSE)
    /\ UNCHANGED <<STATE_CACHE_DICT, PARK_CACHE_DICT, NEAR_CACHE_DICT, files,
                   state_url_dict, park_ls, gets, dirty, fetched>>

\* one of the n GETs get_sites_for_state issued failed: the first is for the
\* state page, the others for the detail pages in order
SitesFailed(page, resps, n) ==
    n > 0 /\ (Failed(page) \/ \E i \in 1..(n - 1) : Failed(resps[i]))

\* the state URL as a cache key: "" for a value that is no str
UrlKey(state_url) == IF state_url.t = "str" THEN state_url.s ELSE ""

\* a recognized state name: get_sites_for_state and the printed list
ListSites(inp, state_name, state_url, page, resps) ==
    \E r \in {get_sites_for_state(World, state_url, page, resps)} :
    /\ Install(r.w)
    /\ pc' = IF r.crash THEN "Crashed" ELSE "SelectSite"
    /\ park_ls' = IF r.crash THEN park_ls ELSE r.ret
    /\ last' = Step("state", inp, UrlKey(state_url),
                    IF ParkMiss(World, state_url) THEN "miss" ELSE "hit",
                    IF r.crash THEN "crash" ELSE "ok", r.w.gets - gets, NoPage, PNull,
                    IF r.crash THEN r.w.out ELSE r.w.out \o SiteLines(state_name, r.ret),
                    SitesFailed(page, resps, r.w.gets - gets))
    /\ fetched' = Log(r.w, "sites", UrlKey(state_url))
    /\ UNCHANGED state_url_dict

\* sub in s, for two strs
Substring(sub, s) ==
    \E i \in 1..(Len(s) - Len(sub) + 1) : SubSeq(s, i, i + Len(sub) - 1) = sub

\* whether "state_name not in state_url_dict" can be asked of the value
\* build_state_url_dict returned: a dict, a list and a str can be searched
Searchable(v) == v.t \in {"dict", "list", "str"}

\* state_name in state_url_dict: a key of a dict, an element of a list, a
\* part of a str
Contains(v, state_name) ==
    CASE v.t = "dict" -> HasKey(v, state_name)
      [] v.t = "list" -> \E i \in 1..Len(v.l) : v.l[i] = PStr(state_name)
      [] v.t = "str"  -> Substring(state_name, v.s)

\* the state loop leaving on an unrecognized name instead of asking again
EnterState_error_breaks(inp) ==
    /\ pc = "SelectState"
    /\ LET state_name == lower(inp) IN
       IF state_name = "exit"
       THEN Only("state", inp, "exit", <<>>, "Terminal")
       ELSE IF ~Searchable(state_url_dict)
       THEN Only("state", inp, "crash", <<>>, "Crashed")
       ELSE IF ~Contains(state_url_dict, state_name)
       THEN Only("state", inp, "error",
                 <<Line("wrong name", <<>>), Line("[Error] Enter proper state name", <<>>)>>,
                 "Terminal")
       ELSE IF ~IsDict(state_url_dict)
       THEN Only("state", inp, "crash", <<>>, "Crashed")
       ELSE LET state_url == Get(state_url_dict, state_name) IN
            IF ParkMiss(World, state_url) /\ state_url.t = "str"
            THEN \E page \in StateResponses :
                 \E resps \in [1..(2 * Len(Entries(page))) -> SiteResponses] :
                    ListSites(inp, state_name, state_url, page, resps)
            ELSE ListSites(inp, state_name, state_url, ConnErr, <<>>)

\* one answer at the state prompt.  state_url_dict[state_name] raises on a
\* list and on a str, whatever they hold.
EnterState(inp) ==
    /\ pc = "SelectState"
    /\ LET state_name == lower(inp) IN
       IF state_name = "exit"
       THEN Only("state", inp, "exit", <<>>, "Terminal")
       ELSE IF ~Searchable(state_url_dict)
       THEN Only("state", inp, "crash", <<>>, "Crashed")
       ELSE IF ~Contains(state_url_dict, state_name)
       THEN Only("state", inp, "error",
                 <<Line("wrong name", <<>>), Line("[Error] Enter proper state name", <<>>)>>,
                 "SelectState")
       ELSE IF ~IsDict(state_url_dict)
       THEN Only("state", inp, "crash", <<>>, "Crashed")
       ELSE LET state_url == Get(state_url_dict, state_name) IN
            IF ParkMiss(World, state_url) /\ state_url.t = "str"
            THEN \E page \in StateResponses :
                 \E resps \in [1..(2 * Len(Entries(page))) -> SiteResponses] :
                    ListSites(inp, state_name, state_url, page, resps)
            ELSE ListSites(inp, state_name, state_url, ConnErr, <<>>)

\* a usable index: get_nearby_places and the printed places
ShowNearby(inp, site, resp) ==
    \E r \in {get_nearby_places(World, site, resp)} :
    LET shown == ~r.crash /\ PrintOk(r.ret) IN
    /\ Install(r.w)
    /\ pc' = IF shown THEN "SelectSite" ELSE "Crashed"
    /\ last' = Step("site", inp, info(site),
                    IF NearMiss(World, site) THEN "miss" ELSE "hit",
                    IF shown THEN "ok" ELSE "crash", r.w.gets - gets,
                    IF NearMiss(World, site) THEN resp ELSE NoPage, r.ret,
                    IF r.crash THEN r.w.out ELSE r.w.out \o PlaceLines(r.ret),
                    NearMiss(World, site) /\ Failed(resp))
    /\ fetched' = Log(r.w, "near", info(site))
    /\ UNCHANGED <<state_url_dict, park_ls>>

\* the site loop without "outerLoop = False": exit leaves the inner loop only
EnterSite_exit_as_back(inp) ==
    /\ pc = "SelectSite"
    /\ IF Str(inp) = "back" THEN Only("site", inp, "back", <<>>, "SelectState")
       ELSE IF Str(inp) = "exit" THEN Only("site", inp, "exit", <<>>, "SelectState")
       ELSE IF ~int(inp).ok THEN Only("site", inp, "crash", <<>>, "Crashed")
       ELSE IF int(inp).n > Len(park_ls)
       THEN Only("site", inp, "error", <<Line("[Error] Invalid input", <<>>)>>, "SelectSite")
       ELSE IF ~PyIndexOk(park_ls, int(inp).n - 1)
       THEN Only("site", inp, "crash", <<>>, "Crashed")
       ELSE LET site == PyIndex(park_ls, int(inp).n - 1) IN
            IF NearMiss(World, site)
            THEN \E resp \in ApiResponses : ShowNearby(inp, site, resp)
            ELSE ShowNearby(inp, site, ConnErr)

\* one answer at the site prompt
EnterSite(inp) ==
    /\ pc = "SelectSite"
    /\ IF Str(inp) = "back" THEN Only("site", inp, "back", <<>>, "SelectState")
       ELSE IF Str(inp) = "exit" THEN Only("site", inp, "exit", <<>>, "Terminal")
       ELSE IF ~int(inp).ok THEN Only("site", inp, "crash", <<>>, "Crashed")
       ELSE IF int(inp).n > Len(park_ls)
       THEN Only("site", inp, "error", <<Line("[Error] Invalid input", <<>>)>>, "SelectSite")
       ELSE IF ~PyIndexOk(park_ls, int(inp).n - 1)
       THEN Only("site", inp, "crash", <<>>, "Crashed")
       ELSE LET site == PyIndex(park_ls, int(inp).n - 1) IN
            IF NearMiss(World, site)
            THEN \E resp \in ApiResponses : ShowNearby(inp, site, resp)
            ELSE ShowNearby(inp, site, ConnErr)

Next ==
    \/ Startup
    \/ \E inp \in StateInputs : EnterState(inp)
    \/ \E inp \in SiteInputs : EnterSite(inp)

Spec == Init /\ [][Next]_vars

\* the run after a run that died inside save_cache
RecoveryInit == InitOn(CrashedDisks)

RecoverySpec == RecoveryInit /\ [][Next]_vars

-----------------------------------------------------------------------------
(* The cache store alone: one map, one file, save_cache and open_cache *)

\* the longest text of a file found on disk, in tokens
MaxTokens == 3

\* the most keys of a map that is saved
MaxKeys == 2

Tokens ==
    {LBrace, RBrace, LBracket, RBracket, Comma, Colon, TNull, TTrue, TStr("a"), TNum(1),
     TFloat(FALSE, 150, 0 - 2), TFloat(TRUE, 1, 400), TFloat(FALSE, 11, 0 - 324),
     TFloat(FALSE, 2, 0 - 324)}

\* the texts a file can hold
Texts == SeqsUpTo(Tokens, MaxTokens)

Atoms == {PStr(""), PStr("a"), PNum(1), PNull, PBool(TRUE), PFloat(FALSE, 15, 0 - 1)}

\* JSON values: atoms, and lists and objects of atoms (NaN and the infinities
\* json.loads also reads are no JSON values)
Values ==
    Atoms \cup {PList(l) : l \in SeqsUpTo(Atoms, 1)}
          \cup {EmptyDict} \cup {PDict(<< <<"a", x>> >>) : x \in Atoms}

KeyNames == {"", "a", "b"}

\* maps with string keys and JSON values
Maps ==
    {PDict(d) : d \in {e \in SeqsUpTo(KeyNames \X Values, MaxKeys) :
                          \A i, j \in 1..Len(e) : i # j => e[i][1] # e[j][1]}}

\* floats at the ends of the doubles: the smallest and the largest, one of
\* the doubles below 2^-1022, and the negative zero
EdgeFloats ==
    {PFloat(FALSE, 5, 0 - 324), PFloat(FALSE, 17976931, 301), PFloat(TRUE, 16, 0 - 324),
     PFloat(TRUE, 0, 0)}

\* maps of one such value
EdgeMaps == {PDict(<< <<"a", x>> >>) : x \in EdgeFloats}

\* a map to save and no file, or a file of any text
StoreInit ==
    /\ pc = "store"
    /\ STATE_CACHE_DICT = EmptyDict
    /\ PARK_CACHE_DICT = EmptyDict
    /\ \/ NEAR_CACHE_DICT \in Maps \cup EdgeMaps /\ files = Disk(NoFile, NoFile, NoFile)
       \/ NEAR_CACHE_DICT = EmptyDict
          /\ \E text \in Texts : files = Disk(NoFile, NoFile, File(text))
    /\ state_url_dict = EmptyDict
    /\ park_ls = <<>>
    /\ gets = 0
    /\ dirty = {}
    /\ fetched = <<>>
    /\ last = Step("boot", <<>>, "", "none", "ok", 0, NoPage, PNull, <<>>, FALSE)

\* save_cache(NEAR_CACHE_DICT, NEAR_CACHE_FILENAME)
StoreSave ==
    /\ pc = "store"
    /\ files' = save_cache(files, NEAR_CACHE_DICT, NEAR_CACHE_FILENAME)
    /\ dirty' = dirty \cup {NEAR_CACHE_FILENAME}
    /\ last' = Step("save_cache", <<>>, "", "none", "ok", 0, NoPage, PNull, <<>>, FALSE)
    /\ UNCHANGED <<pc, STATE_CACHE_DICT, PARK_CACHE_DICT, NEAR_CACHE_DICT,
                   state_url_dict, park_ls, gets, fetched>>

\* open_cache(NEAR_CACHE_FILENAME)
StoreOpen ==
    /\ pc = "store"
    /\ last' = Step("open_cache", <<>>, "", "none", "ok", 0, NoPage,
                    open_cache(files, NEAR_CACHE_FILENAME), <<>>, FALSE)
    /\ UNCHANGED <<pc, STATE_CACHE_DICT, PARK_CACHE_DICT, NEAR_CACHE_DICT, files,
                   state_url_dict, park_ls, gets, dirty, fetched>>

StoreNext == StoreSave \/ StoreOpen

StoreSpec == StoreInit /\ [][StoreNext]_vars

\* C6: open_cache of the file save_cache wrote for a map returns that map,
\* item for item in the same order.
C6_RoundTrip ==
    (last.step = "open_cache" /\ NEAR_CACHE_FILENAME \in dirty)
    => last.ret = NEAR_CACHE_DICT

\* a map of two keys, one of them with an object as value, was saved and
\* opened again
C6_Witness ==
    /\ last.step = "open_cache" /\ NEAR_CACHE_FILENAME \in dirty
    /\ Len(NEAR_CACHE_DICT.d) = 2
    /\ \E i \in 1..2 : NEAR_CACHE_DICT.d[i][2].t = "dict" /\ Len(NEAR_CACHE_DICT.d[i][2].d) = 1

\* C7: open_cache of a missing file, or of a file whose text json.loads does
\* not decode, returns the empty map.
C7_EmptyOnFailure ==
    last.step = "open_cache" =>
        ( ( \/ ~files[NEAR_CACHE_FILENAME].exists
            \/ ~loads(files[NEAR_CACHE_FILENAME].text).ok )
          => last.ret = EmptyDict )

\* a file that holds an object cut short was opened
C7_Witness ==
    /\ last.step = "open_cache"
    /\ files[NEAR_CACHE_FILENAME] = File(<<LBrace, TStr("a"), Colon>>)
    /\ last.ret = EmptyDict

-----------------------------------------------------------------------------
(* The site prompt alone: a list of two sites, whatever their pages hold *)

\* pgB has the name and category of pgA and another address and zipcode; pgC
\* is pgA with another telephone
pgB == SitePage(<<"R">>, <<"P">>, <<"H">>, <<"M"," ","4">>, <<"9">>, <<"(","1">>)
pgC == SitePage(<<"R">>, <<"P">>, <<"H">>, <<"M">>, <<"4"," ","9">>, <<"(","2">>)

KeyPages == {pgA, pgB, pgC, pgD}

\* a process that found no cache file, read the state map off an index page
\* with one link, and listed a state whose page has two site entries
KeyInit ==
    \E p1, p2 \in KeyPages :
    \E r0 \in {build_state_url_dict(
                  [STATE |-> EmptyDict, PARK |-> EmptyDict, NEAR |-> EmptyDict,
                   files |-> Disk(NoFile, NoFile, NoFile), gets |-> 0, dirty |-> {},
                   out |-> <<>>],
                  [uls |-> << <<[text |-> <<"M","i">>, href |-> <<"/","m">>]>> >>,
                   status |-> 200])} :
    \E r1 \in {get_sites_for_state(
                  [r0.w EXCEPT !.out = <<>>], PStr(sample_state_url),
                  [lis |-> <<DataLi(<<"/","s">>), DataLi(<<"/","t">>), OtherLi>>,
                   status |-> 200],
                  <<p1, p1, p2, p2>>)} :
        /\ pc = "SelectSite"
        /\ STATE_CACHE_DICT = r1.w.STATE
        /\ PARK_CACHE_DICT = r1.w.PARK
        /\ NEAR_CACHE_DICT = r1.w.NEAR
        /\ files = r1.w.files
        /\ state_url_dict = r0.ret
        /\ park_ls = r1.ret
        /\ gets = r1.w.gets
        /\ dirty = r1.w.dirty
        /\ fetched = <<Fetch("index", ""), Fetch("sites", sample_state_url)>>
        /\ last = Step("state", <<"M","i">>, sample_state_url, "miss", "ok",
                       r1.w.gets - r0.w.gets, NoPage, PNull,
                       r1.w.out \o SiteLines("mi", r1.ret), FALSE)

\* what the user can type at this prompt: the numerals also with an
\* underscore between digits and with white space around them
KeyInputs == SiteInputs \cup {<<"0","_","1">>, <<"\f","2"," ">>}

KeyNext == \E inp \in KeyInputs : EnterSite(inp)

KeySpec == KeyInit /\ [][KeyNext]_vars

\* two sites have the same name and category and not the same address and zipcode
SameNameOnly(s1, s2) ==
    /\ s1.name = s2.name /\ s1.category = s2.category
    /\ (s1.address # s2.address \/ s1.zipcode # s2.zipcode)

\* two sites have the same name, category, address and zipcode
SameButPhone(s1, s2) ==
    /\ s1.name = s2.name /\ s1.category = s2.category
    /\ s1.address = s2.address /\ s1.zipcode = s2.zipcode

\* the site an answer at the site prompt selects
Selected(inp) == PyIndex(park_ls, int(inp).n - 1)

\* C8 as stated: two sites of the same name and category and not the same
\* address and zipcode have different nearby keys (so that neither finds the
\* entry stored under the key of the other).
C8_NoCollision ==
    \A i, j \in 1..Len(park_ls) :
        SameNameOnly(park_ls[i], park_ls[j]) => info(park_ls[i]) # info(park_ls[j])

\* C9: once a lookup has stored an entry for a site, every site of the same
\* name, category, address and zipcode, whatever its phone, has the key of
\* that entry and finds what the lookup returned.
C9_SameKey ==
    [][ (pc = "SelectSite" /\ last'.step = "site" /\ NEAR_CACHE_DICT' # NEAR_CACHE_DICT)
        => \A j \in 1..Len(park_ls) :
              SameButPhone(park_ls[j], Selected(last'.inp)) =>
                 /\ info(park_ls[j]) = last'.key
                 /\ HasKey(NEAR_CACHE_DICT', info(park_ls[j]))
                 /\ Get(NEAR_CACHE_DICT', info(park_ls[j])) = last'.ret ]_vars

\* the second of two sites that differ in the phone alone was answered from
\* the cache after one lookup for the first
C9_Witness ==
    /\ Len(park_ls) = 2
    /\ SameButPhone(park_ls[1], park_ls[2]) /\ park_ls[1].phone # park_ls[2].phone
    /\ last.step = "site" /\ int(last.inp).ok /\ int(last.inp).n = 2
    /\ last.branch = "hit" /\ last.res = "ok"
    /\ IsDict(NEAR_CACHE_DICT) /\ Len(NEAR_CACHE_DICT.d) = 1

-----------------------------------------------------------------------------
(* Properties of the session *)

Prompts == {"SelectState", "SelectSite"}

\* the in-memory map of a cache file
MapOf(f) ==
    IF f = STATE_CACHE_FILENAME THEN STATE_CACHE_DICT
    ELSE IF f = PARK_CACHE_FILENAME THEN PARK_CACHE_DICT ELSE NEAR_CACHE_DICT

\* C1: when the state URL looked up is a key of the site-list map, the step
\* issues no GET, leaves the site-list map and every file as they were, and
\* the list it returns has, in the cached order, the five fields of each
\* cached field-mapping.
C1_SiteListHit ==
    [][ ( /\ pc = "SelectState" /\ last'.step = "state" /\ last'.key # ""
          /\ IsDict(PARK_CACHE_DICT) /\ HasKey(PARK_CACHE_DICT, last'.key) )
        => LET cached == Get(PARK_CACHE_DICT, last'.key).l IN
           /\ last'.res = "ok" /\ last'.gets = 0 /\ gets' = gets
           /\ PARK_CACHE_DICT' = PARK_CACHE_DICT /\ files' = files
           /\ Len(park_ls') = Len(cached)
           /\ \A i \in 1..Len(cached) :
                 /\ park_ls'[i].category = Get(cached[i], k_category)
                 /\ park_ls'[i].name = Get(cached[i], k_name)
                 /\ park_ls'[i].address = Get(cached[i], k_address)
                 /\ park_ls'[i].zipcode = Get(cached[i], k_zipcode)
                 /\ park_ls'[i].phone = Get(cached[i], k_phone) ]_vars

\* a state was selected and its list came from a cached list of two sites
\* that differ in every field: the first cached is the first returned
C1_Witness ==
    /\ last.step = "state" /\ last.branch = "hit" /\ last.res = "ok"
    /\ last.gets = 0 /\ Len(park_ls) = 2
    /\ park_ls[1] = sample_site /\ park_ls[2] = get_site_instance(pgD)
    /\ \A k \in SiteKeys : Get(obj_dict(park_ls[1]), k) # Get(obj_dict(park_ls[2]), k)

\* C2: when the display string of the selected site is a key of the nearby
\* map, the step issues no GET, leaves the nearby map and every file as they
\* were, get_nearby_places returns the cached object, and the places printed
\* are those of the cached object.
C2_NearbyHit ==
    [][ ( /\ pc = "SelectSite" /\ last'.step = "site" /\ last'.key # ""
          /\ IsDict(NEAR_CACHE_DICT) /\ HasKey(NEAR_CACHE_DICT, last'.key) )
        => LET cached == Get(NEAR_CACHE_DICT, last'.key) IN
           /\ last'.gets = 0 /\ gets' = gets
           /\ NEAR_CACHE_DICT' = NEAR_CACHE_DICT /\ files' = files
           /\ last'.ret = cached
           /\ PrintOk(cached) =>
                 /\ last'.res = "ok"
                 /\ SubSeq(last'.out, 2, Len(last'.out)) = PlaceLines(cached) ]_vars

\* a site was selected and its places were printed from the cache
C2_Witness ==
    /\ last.step = "site" /\ last.branch = "hit" /\ last.res = "ok"
    /\ last.gets = 0 /\ Len(last.out) > 1

\* C3: when the state map loaded from the state cache file is populated,
\* build_state_url_dict returns it as loaded, no GET is issued and no file is
\* rewritten.
C3_StateMapHit ==
    [][ ( pc = "boot" /\ Truthy(open_cache(files, STATE_CACHE_FILENAME)) )
        => /\ pc' = "SelectState" /\ gets' = gets
           /\ state_url_dict' = open_cache(files, STATE_CACHE_FILENAME)
           /\ STATE_CACHE_DICT' = open_cache(files, STATE_CACHE_FILENAME)
           /\ files' = files
           /\ STATE_CACHE_FILENAME \notin dirty' ]_vars

\* the process started on a populated state cache file
C3_Witness ==
    /\ last.step = "startup" /\ last.branch = "hit" /\ pc = "SelectState"
    /\ gets = 0 /\ Truthy(state_url_dict)

\* the <a> elements of the dropdown the last step received
Dropdown == last.page.uls[1]

\* the state map was empty at startup and build_state_url_dict returned
BuiltStateMap == last.step = "startup" /\ last.branch = "miss" /\ last.res = "ok"

\* the returned map is the in-memory state map and the content of the file
StateMapStored ==
    /\ STATE_CACHE_DICT = last.ret
    /\ files[STATE_CACHE_FILENAME].exists
    /\ loads(files[STATE_CACHE_FILENAME].text) = [ok |-> TRUE, v |-> last.ret]

\* C4 as stated: built from an empty state map with one GET, the returned map
\* sends the lowercased text of each dropdown link to "https://www.nps.gov" +
\* its href, and the in-memory state map and the state cache file hold it.
C4_EachLink ==
    BuiltStateMap =>
        /\ last.gets = 1
        /\ KeySet(last.ret) = {lower(Dropdown[i].text) : i \in 1..Len(Dropdown)}
        /\ \A i \in 1..Len(Dropdown) :
              Get(last.ret, lower(Dropdown[i].text)) = PStr(base_url \o Str(Dropdown[i].href))
        /\ StateMapStored

\* the i-th link is the last of the dropdown with its lowercased text
LastOfItsName(i) ==
    \A j \in (i + 1)..Len(Dropdown) : lower(Dropdown[j].text) # lower(Dropdown[i].text)

\* C4 amended: as C4, the map sending each lowercased text to
\* "https://www.nps.gov" + the href of the last link that has that text.
C4_LastLink ==
    BuiltStateMap =>
        /\ last.gets = 1
        /\ KeySet(last.ret) = {lower(Dropdown[i].text) : i \in 1..Len(Dropdown)}
        /\ \A i \in 1..Len(Dropdown) :
              LastOfItsName(i) =>
                 Get(last.ret, lower(Dropdown[i].text)) = PStr(base_url \o Str(Dropdown[i].href))
        /\ StateMapStored

\* the state map was built from a dropdown whose two links have the same
\* lowercased text and different hrefs
C4_Witness ==
    /\ BuiltStateMap /\ Len(Dropdown) = 2
    /\ lower(Dropdown[1].text) = lower(Dropdown[2].text)
    /\ Dropdown[1].href # Dropdown[2].href

\* C5: at a prompt, the file of every cache whose map this process has
\* mutated holds a document that decodes to the in-memory map.
C5_WriteThrough ==
    pc \in Prompts =>
        \A f \in dirty :
            /\ files[f].exists
            /\ loads(files[f].text) = [ok |-> TRUE, v |-> MapOf(f)]

\* the process waits at the site prompt having mutated all three maps
C5_Witness == pc = "SelectSite" /\ dirty = FileNames

\* C10 as stated: a number typed at the site prompt that is no index 1..len
\* of the list prints the error and prompts again, without a lookup or a GET.
C10_OutOfRange ==
    ( /\ last.step = "site" /\ int(last.inp).ok
      /\ ~(1 <= int(last.inp).n /\ int(last.inp).n <= Len(park_ls)) )
    => /\ last.res = "error" /\ pc = "SelectSite"
       /\ last.key = "" /\ last.gets = 0
       /\ last.out = <<Line("[Error] Invalid input", <<>>)>>

\* a number of 1..len of the list was typed at the site prompt
ValidIndexTyped ==
    /\ pc = "SelectSite" /\ last'.step = "site" /\ int(last'.inp).ok
    /\ 1 <= int(last'.inp).n /\ int(last'.inp).n <= Len(park_ls)

\* C11 as stated: for a number k of 1..len typed at the site prompt, the
\* nearby lookup is made for the k-th site of the list and the session is at
\* the site prompt afterwards.
C11_ValidIndex ==
    [][ ValidIndexTyped =>
          /\ last'.key = info(park_ls[int(last'.inp).n])
          /\ pc' = "SelectSite" ]_vars

\* "exit" was typed at the state prompt (in any case of letters) or at the
\* site prompt
ExitTyped ==
    \/ pc = "SelectState" /\ last'.step = "state" /\ lower(last'.inp) = "exit"
    \/ pc = "SelectSite" /\ last'.step = "site" /\ Str(last'.inp) = "exit"

BackTyped == pc = "SelectSite" /\ last'.step = "site" /\ Str(last'.inp) = "back"

\* C12: "exit" at either prompt moves the session to Terminal without a GET,
\* output or change of a cache map or file; "back" at the site prompt moves it
\* to SelectState; no step leaves Terminal.
C12_ExitAndBack ==
    [][ /\ ExitTyped =>
             /\ pc' = "Terminal"
             /\ last'.out = <<>> /\ gets' = gets
             /\ UNCHANGED <<STATE_CACHE_DICT, PARK_CACHE_DICT, NEAR_CACHE_DICT, files>>
        /\ BackTyped => pc' = "SelectState"
        /\ pc = "Terminal" => pc' = "Terminal" ]_vars

\* the session ended on "exit" at the site prompt after it had filled a cache
C12_Witness ==
    /\ pc = "Terminal" /\ last.step = "site" /\ Str(last.inp) = "exit"
    /\ PARK_CACHE_FILENAME \in dirty

\* a name that is not "exit" and no key of the state map was typed
UnknownStateTyped ==
    /\ pc = "SelectState" /\ last'.step = "state"
    /\ lower(last'.inp) # "exit"
    /\ ~HasKey(state_url_dict, lower(last'.inp))

\* C13: an unrecognized name at the state prompt prints the error and asks
\* again, without a GET and with the three maps and files unchanged.
C13_UnknownState ==
    [][ UnknownStateTyped =>
          /\ pc' = "SelectState"
          /\ last'.out = <<Line("wrong name", <<>>),
                           Line("[Error] Enter proper state name", <<>>)>>
          /\ gets' = gets
          /\ UNCHANGED <<STATE_CACHE_DICT, PARK_CACHE_DICT, NEAR_CACHE_DICT, files>> ]_vars

\* a name in capitals that the state map lacks was refused while the map had
\* another name
C13_Witness ==
    /\ pc = "SelectState" /\ last.step = "state" /\ last.res = "error"
    /\ last.inp = <<"M","i">> /\ HasKey(state_url_dict, "oh")

\* C14 as stated: the sites get_sites_for_state returns on a miss are, field
\* for field and in order, the list it stored under state_url, so that a
\* later hit returns what the miss returned.
C14_ReturnedIsStored ==
    (last.step = "state" /\ last.branch = "miss" /\ last.res = "ok")
    => /\ HasKey(PARK_CACHE_DICT, last.key)
       /\ park_ls = cache_to_obj(Get(PARK_CACHE_DICT, last.key))

\* the module-level maps the fetcher called in a step starts from: at startup
\* those the three open_cache calls loaded
Before == IF pc = "boot" THEN Loaded(World) ELSE World

\* C15 as stated: a step in which a GET of the fetcher failed (no connection,
\* or a status that is not 200) leaves the three maps and the three files as
\* they were before the fetcher was called.
C15_FailedRequestKeepsCaches ==
    [][ last'.failed =>
          /\ STATE_CACHE_DICT' = Before.STATE
          /\ PARK_CACHE_DICT' = Before.PARK
          /\ NEAR_CACHE_DICT' = Before.NEAR
          /\ files' = files ]_vars

\* every entry of the map old is an entry of the map new, with its value
Keeps(old, new) ==
    IF IsDict(old)
    THEN /\ IsDict(new)
         /\ \A k \in KeySet(old) : HasKey(new, k) /\ Get(new, k) = Get(old, k)
    ELSE new = old

\* C16: once startup has built the state map no step changes it, and no step
\* removes an entry of the site-list map or of the nearby map or changes its
\* value.
C16_Permanence ==
    [][ pc # "boot" =>
          /\ STATE_CACHE_DICT' = STATE_CACHE_DICT
          /\ state_url_dict' = state_url_dict
          /\ Keeps(PARK_CACHE_DICT, PARK_CACHE_DICT')
          /\ Keeps(NEAR_CACHE_DICT, NEAR_CACHE_DICT') ]_vars

\* the site-list map has an entry from an earlier run and one this process
\* added after it
C16_Witness ==
    /\ IsDict(PARK_CACHE_DICT) /\ Len(PARK_CACHE_DICT.d) = 2
    /\ PARK_CACHE_FILENAME \in dirty
    /\ Get(PARK_CACHE_DICT, sample_state_url) = PList(<<obj_dict(sample_site)>>)

\* a cache file holds a text json.loads rejects
Corrupt(f) == files[f].exists /\ ~loads(files[f].text).ok

\* after a step, file f holds the JSON object that is the map m
Rewritten(f, m) ==
    /\ IsDict(m)
    /\ files'[f].exists /\ loads(files'[f].text) = [ok |-> TRUE, v |-> m]

\* a step raised before it wrote anything
DiedUnwritten == pc' = "Crashed" /\ files' = files

\* C17: a cache file that a crash inside save_cache cut short loads as the
\* empty map, and a request for data of that cache goes to the network; when
\* the fetch delivers, the file is rewritten as the JSON object of the map
\* that holds what was fetched.
C17_Recovery ==
    [][ /\ (pc = "boot" /\ Corrupt(STATE_CACHE_FILENAME)) =>
              /\ last'.branch = "miss" /\ gets' > gets
              /\ \/ DiedUnwritten /\ STATE_CACHE_DICT' = EmptyDict
                 \/ /\ Rewritten(STATE_CACHE_FILENAME, STATE_CACHE_DICT')
                    /\ last'.ret = STATE_CACHE_DICT'
        /\ (pc = "boot" /\ Corrupt(PARK_CACHE_FILENAME)) => PARK_CACHE_DICT' = EmptyDict
        /\ (pc = "boot" /\ Corrupt(NEAR_CACHE_FILENAME)) => NEAR_CACHE_DICT' = EmptyDict
        /\ ( /\ pc = "SelectState" /\ Corrupt(PARK_CACHE_FILENAME)
             /\ last'.step = "state" /\ last'.key # "" ) =>
              /\ last'.branch = "miss" /\ gets' > gets
              /\ \/ DiedUnwritten
                 \/ /\ Rewritten(PARK_CACHE_FILENAME, PARK_CACHE_DICT')
                    /\ HasKey(PARK_CACHE_DICT', last'.key)
        /\ ( /\ pc = "SelectSite" /\ Corrupt(NEAR_CACHE_FILENAME)
             /\ last'.step = "site" /\ last'.key # "" ) =>
              /\ last'.branch = "miss" /\ gets' > gets
              /\ \/ DiedUnwritten
                 \/ /\ Rewritten(NEAR_CACHE_FILENAME, NEAR_CACHE_DICT')
                    /\ Get(NEAR_CACHE_DICT', last'.key) = last'.ret ]_vars

\* the process found the nearby file cut short (the state file and the
\* site-list file are as it found them), and the first selection of a site
\* fetched its places and rewrote the file
C17_Witness ==
    /\ files[STATE_CACHE_FILENAME] = stateDoc /\ files[PARK_CACHE_FILENAME] = parkDoc
    /\ last.step = "site" /\ last.branch = "miss" /\ last.res = "ok"
    /\ fetched = <<Fetch("near", last.key)>>
    /\ NEAR_CACHE_FILENAME \in dirty
    /\ loads(files[NEAR_CACHE_FILENAME].text) = [ok |-> TRUE, v |-> NEAR_CACHE_DICT]

\* a site was selected at the site prompt and get_nearby_places was called
NearbyLookup == pc = "SelectSite" /\ last'.step = "site" /\ last'.key # ""

\* C18: a nearby lookup whose key the map lacks issues one GET; when the body
\* of the answer decodes, the decoded value, whatever it is, is stored under
\* the key, written to the file and returned, and the session fails only if
\* the value cannot be indexed and printed; a cached value of that kind is
\* returned as it is by a later lookup, which fails in the same way.
C18_CachedAsIs ==
    [][ NearbyLookup /\ IsDict(NEAR_CACHE_DICT) =>
          IF HasKey(NEAR_CACHE_DICT, last'.key)
          THEN ~PrintOk(Get(NEAR_CACHE_DICT, last'.key)) =>
                  /\ last'.ret = Get(NEAR_CACHE_DICT, last'.key)
                  /\ gets' = gets /\ pc' = "Crashed"
          ELSE /\ gets' = gets + 1
               /\ IF IsErr(last'.page) \/ ~loads(last'.page.body).ok
                  THEN DiedUnwritten /\ NEAR_CACHE_DICT' = NEAR_CACHE_DICT
                  ELSE LET places == loads(last'.page.body).v IN
                       /\ NEAR_CACHE_DICT' = Put(NEAR_CACHE_DICT, last'.key, places)
                       /\ Rewritten(NEAR_CACHE_FILENAME, NEAR_CACHE_DICT')
                       /\ last'.ret = places
                       /\ (pc' = "Crashed") <=> ~PrintOk(places) ]_vars

\* an answer without searchResults was fetched, stored, written to the file
\* and returned, and the session failed on it
C18_Witness ==
    /\ last.step = "site" /\ last.branch = "miss" /\ pc = "Crashed"
    /\ last.ret = apiError
    /\ IsDict(NEAR_CACHE_DICT) /\ HasKey(NEAR_CACHE_DICT, last.key)
    /\ Get(NEAR_CACHE_DICT, last.key) = apiError
    /\ loads(files[NEAR_CACHE_FILENAME].text) = [ok |-> TRUE, v |-> NEAR_CACHE_DICT]

\* C19: in one process nothing is fetched twice: the index at most once,
\* the sites of a state URL at most once, the places near a site key at most
\* once, whatever the user types.
C19_FetchedOnce ==
    \A i, j \in 1..Len(fetched) : i # j => fetched[i] # fetched[j]

\* the process fetched the index, the sites of a state and the places near a
\* site, and a second selection of that site was answered without a GET
C19_Witness ==
    /\ Len(fetched) = 3
    /\ last.step = "site" /\ last.branch = "hit" /\ last.gets = 0 /\ last.res = "ok"
    /\ fetched[3] = Fetch("near", last.key)

\* C20 as stated: whatever the file holds, open_cache returns a map (the
\* decoded JSON object, or the empty map).
C20_AlwaysMap ==
    last.step = "open_cache" => IsDict(last.ret)

====
